---- MODULE Spec2Model ----
(***************************************************************************)
(* GreenFood API (src/main.py): the document store (authuser, wallettopup, *)
(* order, category, product, setting), the bearer tokens handed out by     *)
(* /auth/login, and the request handlers.  A handler is split at its       *)
(* document-store operations: each action performs one store operation     *)
(* together with the local computation around it, so that concurrent       *)
(* requests interleave exactly where the server lets them.                 *)
(*                                                                         *)
(* Order.total is a float (src/schemas.py:70).  A float is modelled as     *)
(* [fl, half], standing for fl + 1/2 when half and for fl otherwise.       *)
(***************************************************************************)
EXTENDS Integers, Sequences, FiniteSets, TLC

\* ---------------------------------------------------------------- bounds
MaxUsers   == 2    \* documents in authuser
MaxTopups  == 1    \* documents in wallettopup
MaxOrders  == 1    \* documents in order
MaxDocs    == 1    \* documents in category, and in product
MaxAmount  == 1    \* largest top-up amount a client submits
MaxTotal   == 2    \* largest integer part of an order total
MaxBalance == 2    \* a balance is not credited above this
MaxTokens  == 2    \* tokens issued by login

Procs  == {"p1", "p2"}
Emails == {"a", "b"}
Ghost  == "gone"                       \* an email no document carries
Roles  == {"user", "admin", "Admin"}
PaymentMethods  == {"greenpay", "cod"}
Absent == "absent"                     \* a field the payload leaves out
PayloadStatuses == {Absent, "paid"}    \* Order.status is free text
Amounts == (0 - 1)..MaxAmount
Totals  == [fl : (0 - 1)..MaxTotal, half : BOOLEAN]
ReqIds  == 1..(MaxTopups + 1)          \* the last one names no document

VARIABLES authuser, wallettopup, order, category, product, setting,
          tokens, pc, local, response

store == <<authuser, wallettopup, order, category, product, setting>>
vars  == <<authuser, wallettopup, order, category, product, setting,
           tokens, pc, local, response>>

\* ---------------------------------------------------------------- helpers
\* Python int() of a float: truncation toward zero.
IntOf(t) == IF t.half /\ t.fl < 0 THEN t.fl + 1 ELSE t.fl

\* Twice the value of a float, an integer.
Twice(t) == 2 * t.fl + (IF t.half THEN 1 ELSE 0)

\* str.lower() on the role strings of the model.
Lower(s) == IF s = "Admin" THEN "admin" ELSE s

\* db["authuser"].find_one({"email": email}): the first match, 0 when none.
get_user_by_email(email) ==
    IF \E i \in 1..Len(authuser) : authuser[i].email = email
    THEN CHOOSE i \in 1..Len(authuser) :
            /\ authuser[i].email = email
            /\ \A j \in 1..(i - 1) : authuser[j].email # email
    ELSE 0

\* Authorization headers a client can send: none, one that is not
\* "Bearer ...", a bearer token that fails jwt.decode, a token issued by
\* login, or a signed token whose user is not in the store.
StaleToken == [sub |-> Ghost, role |-> "admin"]
NoToken    == [sub |-> "", role |-> ""]
Headers ==
    {[kind |-> k, token |-> NoToken] : k \in {"none", "malformed", "invalid"}}
    \cup {[kind |-> "bearer", token |-> t] : t \in tokens \cup {StaleToken}}

\* get_current_user: the user id the header resolves to, 0 when it raises
\* HTTPException(401).
get_current_user(h) ==
    IF h.kind # "bearer" THEN 0 ELSE get_user_by_email(h.token.sub)

\* The status get_current_user leaves a handler with.
AuthCode(h) == IF get_current_user(h) = 0 THEN 401 ELSE 200

\* "except Exception: buyer = None" of create_order (lines 239-240): whatever
\* get_current_user raised, the handler goes on.
InnerExceptRaise(code) == code
InnerExcept(code) == 200

\* "except Exception as e: raise HTTPException(500)" with no
\* "except HTTPException: raise" before it (lines 425-426): an
\* HTTPException raised inside the try is answered as a 500.
ExceptAll(code) == 500

\* require_admin: TRUE when the handler may proceed.
require_admin_token(h, u) == Lower(h.token.role) = "admin"
require_admin(h, u) == Lower(authuser[u].role) = "admin"

NoLocal == [op |-> "", admin |-> 0, buyer |-> 0, current |-> 0, method |-> "",
            total |-> [fl |-> 0, half |-> FALSE], status |-> "",
            req |-> 0, amount |-> 0, email |-> ""]

\* The last HTTP response sent: the operation, the user it resolved (0 when
\* none), the status code and what the body says.
NoResponse == [op |-> "", user |-> 0, code |-> 0, body |-> ""]

Respond(p, op, user, code, body) ==
    /\ response' = [op |-> op, user |-> user, code |-> code, body |-> body]
    /\ pc' = [pc EXCEPT ![p] = "idle"]
    /\ local' = [local EXCEPT ![p] = NoLocal]

Goto(p, label, l) ==
    /\ pc' = [pc EXCEPT ![p] = label]
    /\ local' = [local EXCEPT ![p] = l]
    /\ UNCHANGED response



\* ---------------------------------------------------------------- orders
\* The balance pre-check of create_order (lines 243-245).
InsufficientOff(current, t) == current + 1 < IntOf(t)
Insufficient(current, t) == current < IntOf(t)

\* The status create_order persists when the order is paid (line 248).
PaidStatus(s) == "paid"

\* Order.status: "pending" unless the payload gives one (src/schemas.py:71).
OrderStatus(s) == IF s = Absent THEN "pending" ELSE s

\* Whether create_order pays from the balance (line 242).
PaysWithBalanceAnyMethod(m, buyer) == buyer # 0
PaysWithBalance(m, buyer) == m = "greenpay" /\ buyer # 0

\* The status create_order is left with after resolving the buyer (lines
\* 235-240): get_current_user is not called without a header.
OrderAuthCode(h) == IF h.kind = "none" THEN 200 ELSE InnerExcept(AuthCode(h))

\* POST /orders up to the balance pre-check: lines 233-246.
CreateOrderWith(p, h, m, t, s) ==
    /\ pc[p] = "idle"
    /\ Len(order) < MaxOrders
    /\ LET buyer == get_current_user(h)
           l == [NoLocal EXCEPT !.op = "createOrder", !.buyer = buyer,
                                !.method = m, !.status = OrderStatus(s)]
       IN  IF OrderAuthCode(h) # 200
           THEN Respond(p, "createOrder", 0, OrderAuthCode(h), "Unauthenticated")
           ELSE IF PaysWithBalance(m, buyer)
           THEN LET current == authuser[buyer].balance
                IN  IF Insufficient(current, t)
                    THEN Respond(p, "createOrder", buyer, 400,
                                 "InsufficientFunds")
                    ELSE Goto(p, "co_pay",
                              [l EXCEPT !.current = current, !.total = t])
           ELSE Goto(p, "co_insert", l)
    /\ UNCHANGED <<store, tokens>>

CreateOrderRecv(p) ==
    \E h \in Headers, m \in PaymentMethods, t \in Totals,
       s \in PayloadStatuses : CreateOrderWith(p, h, m, t, s)

\* The $inc of the buyer's balance and order.status = "paid": lines 247-248.
DebitNoop(bal, t) == bal
Debit(bal, t) == bal - IntOf(t)

CoPay(p) ==
    /\ pc[p] = "co_pay"
    /\ LET b == local[p].buyer
       IN  /\ Debit(authuser[b].balance, local[p].total) <= MaxBalance
           /\ authuser' = [authuser EXCEPT
                  ![b].balance = Debit(@, local[p].total)]
    /\ Goto(p, "co_insert",
            [local[p] EXCEPT !.status = PaidStatus(local[p].status)])
    /\ UNCHANGED <<wallettopup, order, category, product, setting, tokens>>

\* The order document, reduced to the fields the properties read:
\* buyer_id (0 when absent), status and payment_method.  Lines 249-251.
OrderDoc(l) ==
    [buyer_id |-> l.buyer, status |-> l.status, payment_method |-> l.method]

\* create_document("order", doc) and the response: lines 252-253.
CoInsert(p) ==
    /\ pc[p] = "co_insert"
    /\ order' = Append(order, OrderDoc(local[p]))
    /\ Respond(p, "createOrder", local[p].buyer, 200, local[p].status)
    /\ UNCHANGED <<authuser, wallettopup, category, product, setting, tokens>>

\* ---------------------------------------------------------------- top-ups
\* POST /wallet/topup-request up to the insert: lines 403-422.
TopupWith(p, h, amount) ==
    /\ pc[p] = "idle"
    /\ Len(wallettopup) < MaxTopups
    /\ LET u == get_current_user(h)
       IN  IF u = 0
           THEN Respond(p, "requestTopup", 0, 401, "Unauthenticated")
           ELSE IF amount <= 0
           THEN Respond(p, "requestTopup", u, ExceptAll(400), "InvalidAmount")
           ELSE Goto(p, "tp_insert",
                     [NoLocal EXCEPT !.op = "requestTopup", !.buyer = u,
                                     !.amount = amount])
    /\ UNCHANGED <<store, tokens>>

TopupRecv(p) == \E h \in Headers, amount \in Amounts : TopupWith(p, h, amount)

\* db["wallettopup"].insert_one(doc): lines 414-424.
TpInsert(p) ==
    /\ pc[p] = "tp_insert"
    /\ wallettopup' = Append(wallettopup,
           [user_id |-> local[p].buyer, amount |-> local[p].amount,
            status |-> "pending"])
    /\ Respond(p, "requestTopup", local[p].buyer, 200, "pending")
    /\ UNCHANGED <<authuser, order, category, product, setting, tokens>>

\* Depends(get_current_user) followed by require_admin(user): what an
\* admin-only handler answers before it touches anything, 200 to proceed.
AdminGate(h) ==
    IF AuthCode(h) # 200 THEN 401
    ELSE IF require_admin(h, get_current_user(h)) THEN 200 ELSE 403

GateBody(code) == IF code = 401 THEN "Unauthenticated" ELSE "Forbidden"

\* POST /admin/topup-requests/{req_id}/approve, the gate: lines 442-443.
ApproveWith(p, h, r) ==
    /\ pc[p] = "idle"
    /\ LET code == AdminGate(h)
       IN  IF code # 200
           THEN Respond(p, "approveTopup", get_current_user(h), code, GateBody(code))
           ELSE Goto(p, "ap_find",
                     [NoLocal EXCEPT !.op = "approveTopup", !.req = r,
                                     !.admin = get_current_user(h)])
    /\ UNCHANGED <<store, tokens>>

ApproveRecv(p) == \E h \in Headers, r \in ReqIds : ApproveWith(p, h, r)

\* The idempotence guard of approve_topup (line 447).
AlreadyApprovedNever(status) == FALSE
AlreadyApproved(status) == status = "approved"

\* find_one of the request and the guards: lines 444-450.
ApFind(p) ==
    /\ pc[p] = "ap_find"
    /\ LET r == local[p].req
       IN  IF r > Len(wallettopup)
           THEN Respond(p, "approveTopup", local[p].admin, 404, "NotFound")
           ELSE IF AlreadyApproved(wallettopup[r].status)
           THEN Respond(p, "approveTopup", local[p].admin, 200,
                        "already_approved")
           ELSE Goto(p, "ap_credit",
                     [local[p] EXCEPT !.buyer = wallettopup[r].user_id,
                                      !.amount = wallettopup[r].amount])
    /\ UNCHANGED <<store, tokens>>

\* The credit, $inc balance by amount: line 452.
CreditNoop(bal, amount) == bal
Credit(bal, amount) == bal + amount

ApCredit(p) ==
    /\ pc[p] = "ap_credit"
    /\ LET u == local[p].buyer
       IN  /\ Credit(authuser[u].balance, local[p].amount) <= MaxBalance
           /\ authuser' = [authuser EXCEPT
                  ![u].balance = Credit(@, local[p].amount)]
    /\ Goto(p, "ap_mark", local[p])
    /\ UNCHANGED <<wallettopup, order, category, product, setting, tokens>>

\* $set status "approved" and the response: lines 453-454.
ApMark(p) ==
    /\ pc[p] = "ap_mark"
    /\ wallettopup' = [wallettopup EXCEPT ![local[p].req].status = "approved"]
    /\ Respond(p, "approveTopup", local[p].admin, 200, "approved")
    /\ UNCHANGED <<authuser, order, category, product, setting, tokens>>

\* POST /admin/topup-requests/{req_id}/reject, the gate: lines 458-459.
RejectWith(p, h, r) ==
    /\ pc[p] = "idle"
    /\ LET code == AdminGate(h)
       IN  IF code # 200
           THEN Respond(p, "rejectTopup", get_current_user(h), code, GateBody(code))
           ELSE Goto(p, "rj_find",
                     [NoLocal EXCEPT !.op = "rejectTopup", !.req = r,
                                     !.admin = get_current_user(h)])
    /\ UNCHANGED <<store, tokens>>

RejectRecv(p) == \E h \in Headers, r \in ReqIds : RejectWith(p, h, r)

\* find_one of the request: lines 460-462.
RjFind(p) ==
    /\ pc[p] = "rj_find"
    /\ IF local[p].req > Len(wallettopup)
       THEN Respond(p, "rejectTopup", local[p].admin, 404, "NotFound")
       ELSE Goto(p, "rj_mark", local[p])
    /\ UNCHANGED <<store, tokens>>

\* $set status "rejected", whatever the status was: lines 463-464.
RjMark(p) ==
    /\ pc[p] = "rj_mark"
    /\ wallettopup' = [wallettopup EXCEPT ![local[p].req].status = "rejected"]
    /\ Respond(p, "rejectTopup", local[p].admin, 200, "rejected")
    /\ UNCHANGED <<authuser, order, category, product, setting, tokens>>

\* ---------------------------------------------------------------- wallet flow
\* A deployed store: an admin (role set by hand, line 97) and a customer,
\* both logged in, and no order yet.  The customer holds bal: nothing and no
\* top-up request, or what approvals of one request of 1 have credited.
Deployed(bal) ==
    /\ authuser = <<[email |-> "a", role |-> "admin", balance |-> 0],
                    [email |-> "b", role |-> "user", balance |-> bal]>>
    /\ tokens = {[sub |-> "a", role |-> "admin"], [sub |-> "b", role |-> "user"]}
    /\ wallettopup = IF bal = 0 THEN <<>>
                     ELSE <<[user_id |-> 2, amount |-> 1, status |-> "approved"]>>
    /\ order = <<>>
    /\ category = 0
    /\ product = 0
    /\ setting = "none"
    /\ pc = [p \in Procs |-> "idle"]
    /\ local = [p \in Procs |-> NoLocal]
    /\ response = NoResponse

InitWallet == Deployed(0)

\* The top-up flow, one request at a time.
TopupNext ==
    \E p \in {"p1"} :
        \/ TopupRecv(p)
        \/ TpInsert(p)
        \/ ApproveRecv(p)
        \/ ApFind(p)
        \/ ApCredit(p)
        \/ ApMark(p)
        \/ RejectRecv(p)
        \/ RjFind(p)
        \/ RjMark(p)

TopupSpec == InitWallet /\ [][TopupNext]_vars

\* Orders, one request at a time, of a customer whom approved top-ups have
\* left with some balance.
InitOrders == \E bal \in 0..MaxBalance : Deployed(bal)

OrderNext ==
    \E p \in {"p1"} :
        \/ CreateOrderRecv(p)
        \/ CoPay(p)
        \/ CoInsert(p)

OrderSpec == InitOrders /\ [][OrderNext]_vars

\* ---------------------------------------------------------------- races
\* Two requests in flight: greenpay orders of whole totals by logged-in
\* buyers, top-up requests, approvals and rejections by the admin.
IssuedHeaders == {[kind |-> "bearer", token |-> t] : t \in tokens}

RaceOrderRecv(p) ==
    \E h \in IssuedHeaders, n \in 1..MaxTotal :
        CreateOrderWith(p, h, "greenpay", [fl |-> n, half |-> FALSE], "pending")

RaceTopupRecv(p) ==
    \E h \in IssuedHeaders, amount \in 1..MaxAmount : TopupWith(p, h, amount)

RaceApproveRecv(p) ==
    \E h \in IssuedHeaders, r \in 1..MaxTopups : ApproveWith(p, h, r)

RaceRejectRecv(p) ==
    \E h \in IssuedHeaders, r \in 1..MaxTopups : RejectWith(p, h, r)

RaceNext ==
    \E p \in Procs :
        \/ RaceOrderRecv(p)
        \/ CoPay(p)
        \/ CoInsert(p)
        \/ RaceTopupRecv(p)
        \/ TpInsert(p)
        \/ RaceApproveRecv(p)
        \/ ApFind(p)
        \/ ApCredit(p)
        \/ ApMark(p)
        \/ RaceRejectRecv(p)
        \/ RjFind(p)
        \/ RjMark(p)

RaceSpec == InitWallet /\ [][RaceNext]_vars

\* ---------------------------------------------------------------- crashes
\* The server dies between the two writes of approve_topup, after the $inc
\* of line 452 and before the $set of line 453: the request is dropped, no
\* response is sent and the store keeps what was written.
ApCrash(p) ==
    /\ pc[p] = "ap_mark"
    /\ pc' = [pc EXCEPT ![p] = "idle"]
    /\ local' = [local EXCEPT ![p] = NoLocal]
    /\ UNCHANGED <<store, tokens, response>>

\* Top-up requests, approvals and rejections, two requests in flight, with
\* crashes between the two writes of an approval; no orders.
CrashNext ==
    \E p \in Procs :
        \/ RaceTopupRecv(p)
        \/ TpInsert(p)
        \/ RaceApproveRecv(p)
        \/ ApFind(p)
        \/ ApCredit(p)
        \/ ApMark(p)
        \/ ApCrash(p)
        \/ RaceRejectRecv(p)
        \/ RjFind(p)
        \/ RjMark(p)

CrashSpec == InitWallet /\ [][CrashNext]_vars

\* ---------------------------------------------------------------- accounts
\* The duplicate check of register_user (line 95).
EmailTakenNever(email) == FALSE
EmailTaken(email) == get_user_by_email(email) # 0

\* POST /auth/register, the find_one: lines 94-96.
RegisterWith(p, email) ==
    /\ pc[p] = "idle"
    /\ IF EmailTaken(email)
       THEN Respond(p, "register", 0, 400, "Conflict")
       ELSE /\ Len(authuser) < MaxUsers
            /\ Goto(p, "rg_insert",
                    [NoLocal EXCEPT !.op = "register", !.email = email])
    /\ UNCHANGED <<store, tokens>>

RegisterRecv(p) == \E email \in Emails : RegisterWith(p, email)

\* The AuthUser document of register_user (line 98).
NewUser(email) == [email |-> email, role |-> "user", balance |-> 0]

\* insert_one and the response: lines 98-102.
RgInsert(p) ==
    /\ pc[p] = "rg_insert"
    /\ authuser' = Append(authuser, NewUser(local[p].email))
    /\ Respond(p, "register", Len(authuser) + 1, 200, "user")
    /\ UNCHANGED <<wallettopup, order, category, product, setting, tokens>>

\* POST /auth/login: lines 106-120.  pwok: verify_password succeeds.
Login(p) ==
    /\ pc[p] = "idle"
    /\ \E email \in Emails \cup {Ghost}, pwok \in BOOLEAN :
        LET u == get_user_by_email(email)
        IN  IF u = 0 \/ ~pwok
            THEN /\ Respond(p, "login", 0, 401, "Unauthenticated")
                 /\ UNCHANGED tokens
            ELSE /\ tokens' = tokens \cup
                        {[sub |-> authuser[u].email, role |-> authuser[u].role]}
                 /\ Cardinality(tokens') <= MaxTokens
                 /\ Respond(p, "login", u, 200, "token")
    /\ UNCHANGED store

\* The role of a user edited in the database by hand: the comment of line 97.
SetRole ==
    /\ \E u \in 1..Len(authuser), r \in Roles :
        /\ authuser[u].role # r
        /\ authuser' = [authuser EXCEPT ![u].role = r]
    /\ UNCHANGED <<wallettopup, order, category, product, setting, tokens,
                   pc, local, response>>

\* ---------------------------------------------------------------- admin
\* The gate of an admin-only handler, then its label: lines 143-144,
\* 171-172, 199-207, 430-431.
AdminWith(p, h, op, label) ==
    /\ pc[p] = "idle"
    /\ LET code == AdminGate(h)
       IN  IF code # 200
           THEN Respond(p, op, get_current_user(h), code, GateBody(code))
           ELSE Goto(p, label, [NoLocal EXCEPT !.op = op,
                                !.admin = get_current_user(h)])
    /\ UNCHANGED <<store, tokens>>

AdminRecv(p, op, label) == \E h \in Headers : AdminWith(p, h, op, label)

CategoryRecv(p) == category < MaxDocs /\ AdminRecv(p, "createCategory", "cat_insert")

\* create_document("category", category): lines 173-175.
CatInsert(p) ==
    /\ pc[p] = "cat_insert"
    /\ category' = category + 1
    /\ Respond(p, "createCategory", local[p].admin, 200, "id")
    /\ UNCHANGED <<authuser, wallettopup, order, product, setting, tokens>>

ProductRecv(p) == product < MaxDocs /\ AdminRecv(p, "createProduct", "pr_insert")

\* create_document("product", payload): lines 208-226.
PrInsert(p) ==
    /\ pc[p] = "pr_insert"
    /\ product' = product + 1
    /\ Respond(p, "createProduct", local[p].admin, 200, "id")
    /\ UNCHANGED <<authuser, wallettopup, order, category, setting, tokens>>

QrisRecv(p) == AdminRecv(p, "setQrisImage", "qr_upsert")

\* update_one({"key": "qris"}, ..., upsert=True): lines 145-153.
QrUpsert(p) ==
    /\ pc[p] = "qr_upsert"
    /\ setting' = "image"
    /\ Respond(p, "setQrisImage", local[p].admin, 200, "image")
    /\ UNCHANGED <<authuser, wallettopup, order, category, product, tokens>>

ListRecv(p) == AdminRecv(p, "listTopupRequests", "ls_find")

\* db["wallettopup"].find(q).sort(...): lines 432-438.
LsFind(p) ==
    /\ pc[p] = "ls_find"
    /\ Respond(p, "listTopupRequests", local[p].admin, 200, "rows")
    /\ UNCHANGED <<store, tokens>>

\* An empty store, nobody logged in.
InitEmpty ==
    /\ authuser = <<>>
    /\ tokens = {}
    /\ wallettopup = <<>>
    /\ order = <<>>
    /\ category = 0
    /\ product = 0
    /\ setting = "none"
    /\ pc = [p \in Procs |-> "idle"]
    /\ local = [p \in Procs |-> NoLocal]
    /\ response = NoResponse

\* Registration, login and the role edits, two requests in flight.
AccountNext ==
    \/ SetRole
    \/ \E p \in Procs :
        \/ RegisterRecv(p)
        \/ RgInsert(p)
        \/ Login(p)

AccountSpec == InitEmpty /\ [][AccountNext]_vars

\* The admin-only operations against the deployed store, whose tokens were
\* issued before the roles are edited; one request at a time.
AdminNext ==
    \/ SetRole
    \/ \E p \in {"p1"} :
        \/ CategoryRecv(p)
        \/ CatInsert(p)
        \/ ProductRecv(p)
        \/ PrInsert(p)
        \/ QrisRecv(p)
        \/ QrUpsert(p)
        \/ ListRecv(p)
        \/ LsFind(p)
        \/ ApproveRecv(p)
        \/ ApFind(p)
        \/ RejectRecv(p)
        \/ RjFind(p)

AdminSpec == InitWallet /\ [][AdminNext]_vars


\* ---------------------------------------------------------------- properties
Left(p, label) == pc[p] = label /\ pc'[p] # label

\* Process p was idle and a request was received: it moved on or answered.
Received(p) == pc[p] = "idle" /\ (pc'[p] # "idle" \/ response' # response)

OrderResponse(user, code, body) ==
    [op |-> "createOrder", user |-> user, code |-> code, body |-> body]

LessThanTotal(bal, t) == 2 * bal < Twice(t)
LessThanTruncated(bal, t) == bal < (IF t.half /\ t.fl < 0 THEN t.fl + 1 ELSE t.fl)

C1_Fails(Less(_, _)) ==
    \A p \in Procs, h \in Headers, t \in Totals, s \in PayloadStatuses :
        LET u == get_current_user(h)
        IN  (/\ Received(p)
             /\ u # 0
             /\ Less(authuser[u].balance, t)
             /\ CreateOrderWith(p, h, "greenpay", t, s))
            => /\ response' = OrderResponse(u, 400, "InsufficientFunds")
               /\ pc'[p] = "idle"
               /\ UNCHANGED store

\* C1, as stated: a greenpay order of a resolved buyer whose stored balance
\* is less than the order total fails with InsufficientFunds, and the failure
\* leaves every balance and the order collection as they were.
C1_InsufficientBelowTotal == [][C1_Fails(LessThanTotal)]_vars

\* C1, amended: the same of a buyer whose stored balance is less than the
\* order total truncated toward zero to an integer.
C1_InsufficientBelowTruncatedTotal == [][C1_Fails(LessThanTruncated)]_vars

\* A greenpay order was refused to a buyer who holds a positive balance.
C1_Witness ==
    /\ response.op = "createOrder"
    /\ response.body = "InsufficientFunds"
    /\ response.user # 0
    /\ authuser[response.user].balance = 1
    /\ order = <<>>

TwiceTotal(t) == Twice(t)
TwiceTruncated(t) == 2 * (IF t.half /\ t.fl < 0 THEN t.fl + 1 ELSE t.fl)

C2_Pays(TwiceCharged(_)) ==
    \A p \in Procs :
        /\ \A h \in Headers, t \in Totals, s \in PayloadStatuses :
            LET u == get_current_user(h)
            IN  (/\ Received(p)
                 /\ u # 0
                 /\ 2 * authuser[u].balance >= Twice(t)
                 /\ CreateOrderWith(p, h, "greenpay", t, s))
                => /\ pc'[p] = "co_pay"
                   /\ local'[p].buyer = u
                   /\ local'[p].current = authuser[u].balance
                   /\ local'[p].total = t
                   /\ UNCHANGED store
        /\ Left(p, "co_pay")
            => LET b == local[p].buyer
               IN  /\ pc'[p] = "co_insert"
                   /\ local'[p].buyer = b
                   /\ local'[p].method = "greenpay"
                   /\ 2 * authuser'[b].balance
                        = 2 * local[p].current - TwiceCharged(local[p].total)
                   /\ authuser' = [authuser EXCEPT
                          ![b].balance = authuser'[b].balance]
                   /\ UNCHANGED <<wallettopup, order>>
        /\ (Left(p, "co_insert") /\ local[p].method = "greenpay"
                                 /\ local[p].buyer # 0)
            => /\ order' = Append(order,
                     [buyer_id |-> local[p].buyer, status |-> "paid",
                      payment_method |-> "greenpay"])
               /\ response' = OrderResponse(local[p].buyer, 200, "paid")
               /\ pc'[p] = "idle"
               /\ UNCHANGED <<authuser, wallettopup>>

\* C2, as stated: a greenpay order of total T by a resolved buyer whose
\* stored balance B is at least T persists exactly one order, with status
\* "paid" and the buyer's id, makes the buyer's balance B - T and changes no
\* other user's balance.
C2_PaidDebitsTotal == [][C2_Pays(TwiceTotal)]_vars

\* C2, amended: the same, the balance becoming B - int(T), the total
\* truncated toward zero to an integer.
C2_PaidDebitsTruncatedTotal == [][C2_Pays(TwiceTruncated)]_vars

\* A buyer holding 2 has been debited 1 for a greenpay order and the order
\* is about to be persisted as paid.
C2_Witness ==
    \E p \in Procs :
        /\ pc[p] = "co_insert"
        /\ local[p].method = "greenpay"
        /\ local[p].status = "paid"
        /\ local[p].buyer # 0
        /\ local[p].current = 2
        /\ local[p].total.fl = 1
        /\ authuser[local[p].buyer].balance = 1

\* C3: whatever the interleaving of createOrder (greenpay) and approveTopup
\* requests, every stored balance is >= 0 in every reachable state.
C3_BalanceNonNegative ==
    \A u \in 1..Len(authuser) : authuser[u].balance >= 0


ApproveResponse(user, code, body) ==
    [op |-> "approveTopup", user |-> user, code |-> code, body |-> body]

\* C4: approving a top-up request and approving it again: the approval of a
\* request that is not yet approved adds its amount to the balance of the
\* user it names, once, and marks it "approved"; an approval that finds the
\* request approved answers "already_approved" and leaves every balance and
\* the request as they were.
C4_SecondApprovalIsNoop ==
    [][\A p \in Procs :
        LET r == local[p].req
        IN  /\ (Left(p, "ap_find") /\ r <= Len(wallettopup))
                => IF wallettopup[r].status = "approved"
                   THEN /\ response' = ApproveResponse(local[p].admin, 200,
                                                       "already_approved")
                        /\ pc'[p] = "idle"
                        /\ UNCHANGED store
                   ELSE /\ pc'[p] = "ap_credit"
                        /\ local'[p].req = r
                        /\ UNCHANGED store
            /\ Left(p, "ap_credit")
                => /\ pc'[p] = "ap_mark"
                   /\ local'[p].req = r
                   /\ authuser' = [authuser EXCEPT
                          ![wallettopup[r].user_id].balance =
                              @ + wallettopup[r].amount]
                   /\ UNCHANGED wallettopup
            /\ Left(p, "ap_mark")
                => /\ wallettopup' = [wallettopup EXCEPT
                          ![r].status = "approved"]
                   /\ response' = ApproveResponse(local[p].admin, 200,
                                                  "approved")
                   /\ pc'[p] = "idle"
                   /\ UNCHANGED authuser]_vars

\* A second approval was answered "already_approved" and the user holds the
\* amount of the request, credited once.
C4_Witness ==
    /\ response.op = "approveTopup"
    /\ response.body = "already_approved"
    /\ \E r \in 1..Len(wallettopup) :
          /\ wallettopup[r].status = "approved"
          /\ wallettopup[r].amount > 0
          /\ authuser[wallettopup[r].user_id].balance = wallettopup[r].amount

C5_Persists(Status(_)) ==
    \A p \in Procs :
        /\ \A h \in Headers, m \in PaymentMethods \ {"greenpay"},
              t \in Totals, s \in PayloadStatuses :
            (Received(p) /\ CreateOrderWith(p, h, m, t, s))
            => /\ pc'[p] = "co_insert"
               /\ local'[p].method = m
               /\ local'[p].buyer = get_current_user(h)
               /\ local'[p].status = Status(s)
               /\ UNCHANGED store
        /\ (Left(p, "co_insert") /\ local[p].method # "greenpay")
            => /\ order' = Append(order,
                     [buyer_id |-> local[p].buyer, status |-> local[p].status,
                      payment_method |-> local[p].method])
               /\ response' = OrderResponse(local[p].buyer, 200,
                                            local[p].status)
               /\ pc'[p] = "idle"
               /\ UNCHANGED authuser

AlwaysPending(s) == "pending"
PendingUnlessGiven(s) == IF s = Absent THEN "pending" ELSE s

\* C5, as stated: an order whose payment_method is not "greenpay" is
\* persisted and answered with status "pending", whatever the payload and
\* the buyer, and changes no balance.
C5_OtherMethodsStayPending == [][C5_Persists(AlwaysPending)]_vars

\* C5, amended: such an order is persisted and answered with the status
\* the payload gives, "pending" when it gives none, and changes no balance.
C5_OtherMethodsKeepPayloadStatus == [][C5_Persists(PendingUnlessGiven)]_vars

\* A cash-on-delivery order of a logged-in buyer was persisted as pending.
C5_Witness ==
    /\ response.op = "createOrder"
    /\ response.code = 200
    /\ Len(order) > 0
    /\ order[Len(order)].payment_method = "cod"
    /\ order[Len(order)].status = "pending"
    /\ order[Len(order)].buyer_id # 0

\* C6: every status change of a top-up request leaves "pending": it is
\* pending -> approved or pending -> rejected, and a request that has left
\* "pending" never changes status again.
C6_StatusLeavesPendingOnce ==
    [][\A r \in 1..Len(wallettopup) :
        wallettopup'[r].status # wallettopup[r].status
        => /\ wallettopup[r].status = "pending"
           /\ wallettopup'[r].status \in {"approved", "rejected"}]_vars

GateStep(p, h) ==
    \/ \E r \in ReqIds : ApproveWith(p, h, r) \/ RejectWith(p, h, r)
    \/ AdminWith(p, h, "createCategory", "cat_insert")
    \/ AdminWith(p, h, "createProduct", "pr_insert")
    \/ AdminWith(p, h, "setQrisImage", "qr_upsert")
    \/ AdminWith(p, h, "listTopupRequests", "ls_find")

AdminLabels ==
    {"cat_insert", "pr_insert", "qr_upsert", "ls_find", "ap_find", "rj_find"}

\* C7: an admin-only operation proceeds only if the role stored for the
\* caller when the request arrives is "admin", compared case-insensitively,
\* whatever role the token carries; any other resolved caller is answered
\* Forbidden and the store is left as it was.
C7_AdminByStoredRole ==
    [][\A p \in Procs :
        /\ \A h \in Headers :
            LET u == get_current_user(h)
            IN  (Received(p) /\ u # 0 /\ GateStep(p, h))
                => /\ UNCHANGED store
                   /\ IF authuser[u].role \in {"admin", "Admin"}
                      THEN pc'[p] \in AdminLabels /\ local'[p].admin = u
                      ELSE /\ pc'[p] = "idle"
                           /\ response'.code = 403
                           /\ response'.user = u
        /\ (Received(p) /\ pc'[p] \in AdminLabels)
            => /\ local'[p].admin \in 1..Len(authuser)
               /\ authuser[local'[p].admin].role \in {"admin", "Admin"}
        /\ <<category, product, setting, wallettopup>>'
              # <<category, product, setting, wallettopup>>
            => \E q \in Procs : pc[q] \in AdminLabels]_vars

\* The user whose token says "admin" was refused after the stored role had
\* been changed to "user".
C7_Witness ==
    /\ response.code = 403
    /\ response.user = 1
    /\ authuser[1].role = "user"
    /\ [sub |-> authuser[1].email, role |-> "admin"] \in tokens

\* C8: requestTopup with amount <= 0 fails with the InvalidAmount client
\* error (400) and inserts nothing; with amount > 0 it inserts exactly one
\* pending record of the acting user and changes no balance.
C8_InvalidAmountIsClientError ==
    [][\A p \in Procs :
        /\ \A h \in Headers, amount \in Amounts :
            LET u == get_current_user(h)
            IN  (Received(p) /\ u # 0 /\ TopupWith(p, h, amount))
                => /\ UNCHANGED store
                   /\ IF amount <= 0
                      THEN /\ pc'[p] = "idle"
                           /\ response'.op = "requestTopup"
                           /\ response'.body = "InvalidAmount"
                           /\ response'.code = 400
                      ELSE /\ pc'[p] = "tp_insert"
                           /\ local'[p].buyer = u
                           /\ local'[p].amount = amount
        /\ Left(p, "tp_insert")
            => /\ wallettopup' = Append(wallettopup,
                     [user_id |-> local[p].buyer, amount |-> local[p].amount,
                      status |-> "pending"])
               /\ UNCHANGED authuser]_vars

\* C9: a register whose email a completed register has stored fails with
\* Conflict and leaves the users as they were; a register that succeeds
\* stores exactly one new user, with role "user" and balance 0.
C9_RegisterConflictOrOneUser ==
    [][\A p \in Procs :
        /\ \A email \in Emails :
            (Received(p) /\ RegisterWith(p, email))
            => /\ UNCHANGED store
               /\ IF \E i \in 1..Len(authuser) : authuser[i].email = email
                  THEN /\ pc'[p] = "idle"
                       /\ response'.op = "register"
                       /\ response'.code = 400
                       /\ response'.body = "Conflict"
                  ELSE pc'[p] = "rg_insert" /\ local'[p].email = email
        /\ Left(p, "rg_insert")
            => /\ authuser' = Append(authuser,
                     [email |-> local[p].email, role |-> "user",
                      balance |-> 0])
               /\ response'.op = "register"
               /\ response'.code = 200
               /\ pc'[p] = "idle"]_vars

\* A register was refused for an email already stored, after two succeeded.
C9_Witness ==
    /\ response.op = "register"
    /\ response.body = "Conflict"
    /\ Len(authuser) = 2
    /\ authuser[1].email # authuser[2].email

\* C10: createOrder never answers Unauthenticated: with a header that is
\* missing, malformed, invalid or names an unknown user the order is
\* persisted without buyer_id and no balance changes, greenpay included.
C10_AnonymousOrderNever401 ==
    [][\A p \in Procs :
        /\ \A h \in Headers, m \in PaymentMethods, t \in Totals,
              s \in PayloadStatuses :
            (/\ Received(p)
             /\ get_current_user(h) = 0
             /\ CreateOrderWith(p, h, m, t, s))
            => /\ pc'[p] = "co_insert"
               /\ local'[p].buyer = 0
               /\ local'[p].method = m
               /\ UNCHANGED store
        /\ (Left(p, "co_insert") /\ local[p].buyer = 0)
            => /\ Len(order') = Len(order) + 1
               /\ order'[Len(order')].buyer_id = 0
               /\ order'[Len(order')].payment_method = local[p].method
               /\ response'.code = 200
               /\ UNCHANGED authuser
        /\ response'.op = "createOrder" => response'.code # 401]_vars

\* A greenpay order sent without a usable token was persisted as anonymous.
C10_Witness ==
    /\ response = OrderResponse(0, 200, "pending")
    /\ Len(order) > 0
    /\ order[Len(order)] = [buyer_id |-> 0, status |-> "pending",
                            payment_method |-> "greenpay"]

\* The amounts of the first n top-up requests that name user u and whose
\* status is in statuses, added up.
RECURSIVE AmountsUpTo(_, _, _)
AmountsUpTo(n, u, statuses) ==
    IF n = 0 THEN 0
    ELSE AmountsUpTo(n - 1, u, statuses)
         + (IF wallettopup[n].user_id = u /\ wallettopup[n].status \in statuses
            THEN wallettopup[n].amount ELSE 0)

\* C11: whatever the sequence of approvals and rejections of a top-up
\* request, its amount is added to the user's balance at most once: with
\* balances that start at 0 and no orders, no user holds more than the
\* amounts of the requests that name them.
C11_CreditedAtMostOnce ==
    \A u \in 1..Len(authuser) :
        authuser[u].balance
            <= AmountsUpTo(Len(wallettopup), u, {"pending", "approved", "rejected"})

\* C12: no step of createOrder increases a balance, whatever the payload:
\* a step that increases a balance is the credit of an approval.
C12_OnlyApprovalIncreases ==
    [][(\E u \in 1..Len(authuser) : authuser'[u].balance > authuser[u].balance)
        => \E p \in Procs : pc[p] = "ap_credit" /\ pc'[p] = "ap_mark"]_vars

\* C13: a top-up request whose status is "approved" has had its amount added
\* to the balance of the user it names, in every reachable state, between
\* the two writes of an approval and after a crash there: with no orders, a
\* user holds at least the amounts of the approved requests that name them;
\* only the second write of an approval sets "approved", and an approval
\* gets to its second write only by the step that adds the amount.
C13_ApprovedImpliesCredited ==
    /\ [](\A u \in 1..Len(authuser) :
            authuser[u].balance >= AmountsUpTo(Len(wallettopup), u, {"approved"}))
    /\ [][\A p \in Procs :
            /\ \A r \in 1..Len(wallettopup) :
                (/\ wallettopup'[r].status = "approved"
                 /\ wallettopup[r].status # "approved")
                => \E q \in Procs : Left(q, "ap_mark") /\ local[q].req = r
            /\ (pc[p] # "ap_mark" /\ pc'[p] = "ap_mark")
                => LET r == local[p].req
                   IN  /\ pc[p] = "ap_credit"
                       /\ local'[p].req = r
                       /\ authuser' = [authuser EXCEPT
                              ![wallettopup[r].user_id].balance =
                                  @ + wallettopup[r].amount]
                       /\ UNCHANGED wallettopup]_vars

\* A request is approved while a second approval of it, which read it before
\* it was marked, is between its two writes: the amount is in the balance.
C13_Witness ==
    \E p \in Procs, r \in 1..Len(wallettopup) :
        /\ pc[p] = "ap_mark"
        /\ local[p].req = r
        /\ wallettopup[r].status = "approved"
        /\ wallettopup[r].amount > 0
        /\ authuser[wallettopup[r].user_id].balance >= wallettopup[r].amount

====
